---- MODULE Spec2Model ----
(***************************************************************************)
(* Model of the package `methods` (value and pointer receivers, the        *)
(* Absoluteness interface, the empty interface) and of the entry point     *)
(* that runs its two demonstration routines.                               *)
(*                                                                         *)
(* float64 is modelled bit-exactly: a value is sign, binary exponent and a *)
(* 53-bit significand held in limbs, and *, +, / and math.Sqrt round to    *)
(* nearest, ties to even, with overflow to infinity, gradual underflow,    *)
(* signed zeros and NaN.                                                   *)
(***************************************************************************)
EXTENDS Integers, Sequences, FiniteSets, TLC

(***************************************************************************)
(* Natural numbers of arbitrary size: little-endian sequences of limbs,    *)
(* no leading (high) zero limb, <<>> is 0.                                 *)
(***************************************************************************)
LimbBits == 15
Base == 2^LimbBits

\* Every operator below binds each argument to its value first, as
\* op(a0) == CHOOSE val \in {(body over a) : a \in {a0}} : TRUE, so that an
\* argument is evaluated once however often the body uses it.

Max(a0, b0) ==
    CHOOSE val \in {(
        IF a >= b THEN a ELSE b
    ) : a \in {a0}, b \in {b0}} : TRUE
Min(a0, b0) ==
    CHOOSE val \in {(
        IF a <= b THEN a ELSE b
    ) : a \in {a0}, b \in {b0}} : TRUE

RECURSIVE BStrip(_)
BStrip(a0) ==
    CHOOSE val \in {(
        IF a = <<>> THEN <<>>
        ELSE IF a[Len(a)] = 0 THEN BStrip(SubSeq(a, 1, Len(a) - 1))
        ELSE a
    ) : a \in {a0}} : TRUE

RECURSIVE BFromNat(_)
BFromNat(n0) ==
    CHOOSE val \in {(
        IF n = 0 THEN <<>> ELSE <<n % Base>> \o BFromNat(n \div Base)
    ) : n \in {n0}} : TRUE

RECURSIVE BAddC(_, _, _)
BAddC(a0, b0, c0) ==
    CHOOSE val \in {(
        IF a = <<>> /\ b = <<>> THEN (IF c = 0 THEN <<>> ELSE <<c>>)
        ELSE LET x == IF a = <<>> THEN 0 ELSE Head(a)
                 y == IF b = <<>> THEN 0 ELSE Head(b)
                 s == x + y + c
             IN  <<s % Base>> \o BAddC(IF a = <<>> THEN <<>> ELSE Tail(a),
                                       IF b = <<>> THEN <<>> ELSE Tail(b),
                                       s \div Base)
    ) : a \in {a0}, b \in {b0}, c \in {c0}} : TRUE

BAdd(a0, b0) ==
    CHOOSE val \in {(
        BAddC(a, b, 0)
    ) : a \in {a0}, b \in {b0}} : TRUE

\* a - b - c for a >= b + c, not stripped
RECURSIVE BSubC(_, _, _)
BSubC(a0, b0, c0) ==
    CHOOSE val \in {(
        IF a = <<>> THEN <<>>
        ELSE LET y == IF b = <<>> THEN 0 ELSE Head(b)
                 d == Head(a) - y - c
             IN  <<(d + Base) % Base>> \o BSubC(Tail(a),
                                                IF b = <<>> THEN <<>> ELSE Tail(b),
                                                IF d < 0 THEN 1 ELSE 0)
    ) : a \in {a0}, b \in {b0}, c \in {c0}} : TRUE

BSub(a0, b0) ==
    CHOOSE val \in {(
        BStrip(BSubC(a, b, 0))
    ) : a \in {a0}, b \in {b0}} : TRUE

\* -1, 0, 1 as a < b, a = b, a > b
RECURSIVE BCmpFrom(_, _, _)
BCmpFrom(a0, b0, i0) ==
    CHOOSE val \in {(
        IF i = 0 THEN 0
        ELSE IF a[i] < b[i] THEN -1
        ELSE IF a[i] > b[i] THEN 1
        ELSE BCmpFrom(a, b, i - 1)
    ) : a \in {a0}, b \in {b0}, i \in {i0}} : TRUE

BCmp(a0, b0) ==
    CHOOSE val \in {(
        IF Len(a) < Len(b) THEN -1
        ELSE IF Len(a) > Len(b) THEN 1
        ELSE BCmpFrom(a, b, Len(a))
    ) : a \in {a0}, b \in {b0}} : TRUE

\* a * d + c for 0 <= d, c < Base
RECURSIVE BMulSmallC(_, _, _)
BMulSmallC(a0, d0, c0) ==
    CHOOSE val \in {(
        IF a = <<>> THEN (IF c = 0 THEN <<>> ELSE <<c>>)
        ELSE LET p == Head(a) * d + c
             IN  <<p % Base>> \o BMulSmallC(Tail(a), d, p \div Base)
    ) : a \in {a0}, d \in {d0}, c \in {c0}} : TRUE

BMulSmall(a0, d0) ==
    CHOOSE val \in {(
        IF d = 0 THEN <<>> ELSE BMulSmallC(a, d, 0)
    ) : a \in {a0}, d \in {d0}} : TRUE

RECURSIVE BMul(_, _)
BMul(a0, b0) ==
    CHOOSE val \in {(
        IF a = <<>> \/ b = <<>> THEN <<>>
        ELSE LET rest == BMul(Tail(a), b)
             IN  BAdd(BMulSmall(b, Head(a)),
                      IF rest = <<>> THEN <<>> ELSE <<0>> \o rest)
    ) : a \in {a0}, b \in {b0}} : TRUE

Zeros(q0) ==
    CHOOSE val \in {(
        [i \in 1..q |-> 0]
    ) : q \in {q0}} : TRUE

\* a * 2^n
BShl(a0, n0) ==
    CHOOSE val \in {(
        IF a = <<>> THEN <<>>
        ELSE Zeros(n \div LimbBits) \o BMulSmall(a, 2^(n % LimbBits))
    ) : a \in {a0}, n \in {n0}} : TRUE

\* floor(a / 2^n)
BShr(a0, n0) ==
    CHOOSE val \in {(
        LET q == n \div LimbBits
            r == n % LimbBits
            d == IF q >= Len(a) THEN <<>> ELSE SubSeq(a, q + 1, Len(a))
        IN  IF r = 0 THEN d
            ELSE BStrip([i \in 1..Len(d) |->
                     (d[i] \div 2^r)
                     + (IF i < Len(d) THEN (d[i + 1] % 2^r) * 2^(LimbBits - r) ELSE 0)])
    ) : a \in {a0}, n \in {n0}} : TRUE

\* bit i (from 0) of a
BBit(a0, i0) ==
    CHOOSE val \in {(
        IF i \div LimbBits >= Len(a) THEN 0
        ELSE (a[i \div LimbBits + 1] \div 2^(i % LimbBits)) % 2
    ) : a \in {a0}, i \in {i0}} : TRUE

\* a mod 2^n # 0
BLowNonzero(a0, n0) ==
    CHOOSE val \in {(
        LET q == n \div LimbBits
            r == n % LimbBits
        IN  \/ \E i \in 1..Min(q, Len(a)) : a[i] # 0
            \/ (q < Len(a) /\ a[q + 1] % 2^r # 0)
    ) : a \in {a0}, n \in {n0}} : TRUE

RECURSIVE NatBitLen(_)
NatBitLen(n0) ==
    CHOOSE val \in {(
        IF n = 0 THEN 0 ELSE 1 + NatBitLen(n \div 2)
    ) : n \in {n0}} : TRUE

BBitLen(a0) ==
    CHOOSE val \in {(
        IF a = <<>> THEN 0 ELSE (Len(a) - 1) * LimbBits + NatBitLen(a[Len(a)])
    ) : a \in {a0}} : TRUE

BPow2(i0) ==
    CHOOSE val \in {(
        BShl(<<1>>, i)
    ) : i \in {i0}} : TRUE

\* One step of restoring division by d # 0: r2 is the remainder with the next
\* bit of the dividend appended, q the quotient so far.
DivPick(d0, q0, r20) ==
    CHOOSE val \in {(
        IF BCmp(r2, d) >= 0 THEN <<BAdd(BMulSmall(q, 2), <<1>>), BSub(r2, d)>>
        ELSE <<BMulSmall(q, 2), r2>>
    ) : d \in {d0}, q \in {q0}, r2 \in {r20}} : TRUE

\* bit i of n enters the remainder, qr = <<quotient, remainder>> so far
DivStep(n0, d0, qr0, i0) ==
    CHOOSE val \in {(
        DivPick(d, qr[1], BAdd(BMulSmall(qr[2], 2), BFromNat(BBit(n, i))))
    ) : n \in {n0}, d \in {d0}, qr \in {qr0}, i \in {i0}} : TRUE

\* the steps for bits hi down to lo
RECURSIVE BDivBits(_, _, _, _, _)
\* the lower bits once the upper ones are done
BDivRest(n0, d0, qr0, hi0, lo0) ==
    CHOOSE val \in {(
        IF Len(qr) = 2 THEN BDivBits(n, d, qr, hi, lo) ELSE qr
    ) : n \in {n0}, d \in {d0}, qr \in {qr0}, hi \in {hi0}, lo \in {lo0}} : TRUE

BDivBits(n0, d0, qr0, hi0, lo0) ==
    CHOOSE val \in {(
        IF hi < lo THEN qr
        ELSE IF hi = lo THEN DivStep(n, d, qr, hi)
        ELSE BDivRest(n, d, BDivBits(n, d, qr, hi, (hi + lo + 1) \div 2),
                      (hi + lo + 1) \div 2 - 1, lo)
    ) : n \in {n0}, d \in {d0}, qr \in {qr0}, hi \in {hi0}, lo \in {lo0}} : TRUE

\* <<floor(n / d), n mod d>>
BDivRem(n0, d0) ==
    CHOOSE val \in {(
        BDivBits(n, d, <<<<>>, <<>>>>, BBitLen(n) - 1, 0)
    ) : n \in {n0}, d \in {d0}} : TRUE

\* One step of the digit-by-digit square root: r2 is the remainder with the
\* next two bits of the radicand appended, r the root so far, t = 4r + 1.
SqrtPick(r0, r20, t0) ==
    CHOOSE val \in {(
        IF BCmp(r2, t) >= 0 THEN <<BAdd(BMulSmall(r, 2), <<1>>), BSub(r2, t)>>
        ELSE <<BMulSmall(r, 2), r2>>
    ) : r \in {r0}, r2 \in {r20}, t \in {t0}} : TRUE

\* bits 2i+1 and 2i of n enter the remainder, rr = <<root, remainder>> so far
SqrtStep(n0, rr0, i0) ==
    CHOOSE val \in {(
        SqrtPick(rr[1],
                 BAdd(BMulSmall(rr[2], 4), BFromNat(2 * BBit(n, 2 * i + 1) + BBit(n, 2 * i))),
                 BAdd(BMulSmall(rr[1], 4), <<1>>))
    ) : n \in {n0}, rr \in {rr0}, i \in {i0}} : TRUE

RECURSIVE BSqrtBits(_, _, _, _)
\* the lower bits once the upper ones are done
BSqrtRest(n0, rr0, hi0, lo0) ==
    CHOOSE val \in {(
        IF Len(rr) = 2 THEN BSqrtBits(n, rr, hi, lo) ELSE rr
    ) : n \in {n0}, rr \in {rr0}, hi \in {hi0}, lo \in {lo0}} : TRUE

BSqrtBits(n0, rr0, hi0, lo0) ==
    CHOOSE val \in {(
        IF hi < lo THEN rr
        ELSE IF hi = lo THEN SqrtStep(n, rr, hi)
        ELSE BSqrtRest(n, BSqrtBits(n, rr, hi, (hi + lo + 1) \div 2),
                       (hi + lo + 1) \div 2 - 1, lo)
    ) : n \in {n0}, rr \in {rr0}, hi \in {hi0}, lo \in {lo0}} : TRUE

\* <<floor(sqrt(n)), n - floor(sqrt(n))^2>>
BSqrtRem(n0) ==
    CHOOSE val \in {(
        BSqrtBits(n, <<<<>>, <<>>>>, BBitLen(n) \div 2, 0)
    ) : n \in {n0}} : TRUE

(***************************************************************************)
(* float64.  A finite value is (-1)^s * m * 2^e with m < 2^53; it is       *)
(* normal when m >= 2^52 and subnormal or zero when e = EMin.              *)
(***************************************************************************)
MantBits == 53
EMin == -1074
EMax == 971

NaN == [k |-> "nan", s |-> 0, e |-> 0, m |-> <<>>]
Inf(s0) ==
    CHOOSE val \in {(
        [k |-> "inf", s |-> s, e |-> 0, m |-> <<>>]
    ) : s \in {s0}} : TRUE
Zero(s0) ==
    CHOOSE val \in {(
        [k |-> "fin", s |-> s, e |-> EMin, m |-> <<>>]
    ) : s \in {s0}} : TRUE

IsNaN(a0) ==
    CHOOSE val \in {(
        a.k = "nan"
    ) : a \in {a0}} : TRUE
IsInf(a0) ==
    CHOOSE val \in {(
        a.k = "inf"
    ) : a \in {a0}} : TRUE
IsZero(a0) ==
    CHOOSE val \in {(
        a.k = "fin" /\ a.m = <<>>
    ) : a \in {a0}} : TRUE
IsNormal(a0) ==
    CHOOSE val \in {(
        a.k = "fin" /\ BBitLen(a.m) = MantBits
    ) : a \in {a0}} : TRUE
Xor(s0, t0) ==
    CHOOSE val \in {(
        (s + t) % 2
    ) : s \in {s0}, t \in {t0}} : TRUE

\* the finite value (-1)^s * m * 2^e for m < 2^53, infinite when e is too large
Finite(s0, e0, m0) ==
    CHOOSE val \in {(
        IF m = <<>> THEN Zero(s)
        ELSE IF e > EMax THEN Inf(s)
        ELSE [k |-> "fin", s |-> s, e |-> e, m |-> m]
    ) : s \in {s0}, e \in {e0}, m \in {m0}} : TRUE

\* q rounded up to 2^53 takes the next exponent
Pack(s0, e0, q0) ==
    CHOOSE val \in {(
        IF BBitLen(q) > MantBits THEN Finite(s, e + 1, BShr(q, 1)) ELSE Finite(s, e, q)
    ) : s \in {s0}, e \in {e0}, q \in {q0}} : TRUE

\* q, or q + 1 when the dropped part is above one half, or is one half and q is odd
Nearest(q0, half0, more0) ==
    CHOOSE val \in {(
        IF half /\ (more \/ BBit(q, 0) = 1) THEN BAdd(q, <<1>>) ELSE q
    ) : q \in {q0}, half \in {half0}, more \in {more0}} : TRUE

\* m / 2^sh, rounded to nearest, ties to even
Shifted(m0, sh0, sticky0) ==
    CHOOSE val \in {(
        IF sh <= 0 THEN BShl(m, -sh)
        ELSE Nearest(BShr(m, sh), BBit(m, sh - 1) = 1, sticky \/ BLowNonzero(m, sh - 1))
    ) : m \in {m0}, sh \in {sh0}, sticky \in {sticky0}} : TRUE

RoundTo(s0, m0, e0, sticky0, e10) ==
    CHOOSE val \in {(
        Pack(s, e1, Shifted(m, e1 - e, sticky))
    ) : s \in {s0}, m \in {m0}, e \in {e0}, sticky \in {sticky0}, e1 \in {e10}} : TRUE

\* (-1)^s * (m + fraction) * 2^e, fraction in [0, 1) and nonzero iff sticky,
\* rounded to nearest, ties to even
Round(s0, m0, e0, sticky0) ==
    CHOOSE val \in {(
        RoundTo(s, m, e, sticky, Max(e + BBitLen(m) - MantBits, EMin))
    ) : s \in {s0}, m \in {m0}, e \in {e0}, sticky \in {sticky0}} : TRUE

\* the float64 of the integer n
FromInt(n0) ==
    CHOOSE val \in {(
        Round(IF n < 0 THEN 1 ELSE 0, BFromNat(IF n < 0 THEN -n ELSE n), 0, FALSE)
    ) : n \in {n0}} : TRUE

\* a * b
FMul(a0, b0) ==
    CHOOSE val \in {(
        IF IsNaN(a) \/ IsNaN(b) THEN NaN
        ELSE IF (IsInf(a) /\ IsZero(b)) \/ (IsZero(a) /\ IsInf(b)) THEN NaN
        ELSE IF IsInf(a) \/ IsInf(b) THEN Inf(Xor(a.s, b.s))
        ELSE Round(Xor(a.s, b.s), BMul(a.m, b.m), a.e + b.e, FALSE)
    ) : a \in {a0}, b \in {b0}} : TRUE

\* x * 2^e + y * 2^e with the signs sa and sb
AddAligned(sa0, x0, sb0, y0, e0) ==
    CHOOSE val \in {(
        IF sa # sb /\ BCmp(x, y) = 0 THEN Zero(0)
        ELSE Round(IF sa = sb \/ BCmp(x, y) > 0 THEN sa ELSE sb,
                   IF sa = sb THEN BAdd(x, y)
                   ELSE IF BCmp(x, y) > 0 THEN BSub(x, y) ELSE BSub(y, x),
                   e, FALSE)
    ) : sa \in {sa0}, x \in {x0}, sb \in {sb0}, y \in {y0}, e \in {e0}} : TRUE

\* a + b for finite nonzero a and b, a.e >= b.e.  Far below a, b only
\* decides the rounding.
AddOrdered(a0, b0) ==
    CHOOSE val \in {(
        IF a.e - b.e > MantBits + 2
        THEN Round(a.s,
                   IF a.s = b.s THEN BShl(a.m, 2) ELSE BSub(BShl(a.m, 2), <<1>>),
                   a.e - 2, TRUE)
        ELSE AddAligned(a.s, BShl(a.m, a.e - b.e), b.s, b.m, b.e)
    ) : a \in {a0}, b \in {b0}} : TRUE

\* a + b
FAdd(a0, b0) ==
    CHOOSE val \in {(
        IF IsNaN(a) \/ IsNaN(b) THEN NaN
        ELSE IF IsInf(a) /\ IsInf(b) THEN (IF a.s = b.s THEN a ELSE NaN)
        ELSE IF IsInf(a) THEN a
        ELSE IF IsInf(b) THEN b
        ELSE IF IsZero(a) /\ IsZero(b) THEN Zero(IF a.s = b.s THEN a.s ELSE 0)
        ELSE IF IsZero(a) THEN b
        ELSE IF IsZero(b) THEN a
        ELSE IF a.e >= b.e THEN AddOrdered(a, b)
        ELSE AddOrdered(b, a)
    ) : a \in {a0}, b \in {b0}} : TRUE

\* -a
FNeg(a0) ==
    CHOOSE val \in {(
        IF IsNaN(a) THEN NaN ELSE [a EXCEPT !.s = 1 - a.s]
    ) : a \in {a0}} : TRUE

\* a < 0
FLtZero(a0) ==
    CHOOSE val \in {(
        ~IsNaN(a) /\ ~IsZero(a) /\ a.s = 1
    ) : a \in {a0}} : TRUE

RoundRem(s0, qr0, e0) ==
    CHOOSE val \in {(
        Round(s, qr[1], e, qr[2] # <<>>)
    ) : s \in {s0}, qr \in {qr0}, e \in {e0}} : TRUE

\* a.m * 2^t / b.m has the bits to round a / b
DivShifted(a0, b0, t0) ==
    CHOOSE val \in {(
        RoundRem(Xor(a.s, b.s), BDivRem(BShl(a.m, t), b.m), a.e - t - b.e)
    ) : a \in {a0}, b \in {b0}, t \in {t0}} : TRUE

\* a / b
FDiv(a0, b0) ==
    CHOOSE val \in {(
        IF IsNaN(a) \/ IsNaN(b) THEN NaN
        ELSE IF (IsInf(a) /\ IsInf(b)) \/ (IsZero(a) /\ IsZero(b)) THEN NaN
        ELSE IF IsInf(a) \/ IsZero(b) THEN Inf(Xor(a.s, b.s))
        ELSE IF IsInf(b) \/ IsZero(a) THEN Zero(Xor(a.s, b.s))
        ELSE DivShifted(a, b, Max(MantBits + 3 + BBitLen(b.m) - BBitLen(a.m), 0))
    ) : a \in {a0}, b \in {b0}} : TRUE

\* sqrt(a.m * 2^t) has the bits to round sqrt(a), a.e - t even
SqrtShifted(a0, t0) ==
    CHOOSE val \in {(
        RoundRem(0, BSqrtRem(BShl(a.m, t)), (a.e - t) \div 2)
    ) : a \in {a0}, t \in {t0}} : TRUE

\* one more bit when a.e - t is odd
SqrtEven(a0, t0) ==
    CHOOSE val \in {(
        SqrtShifted(a, t + ((a.e - t) % 2))
    ) : a \in {a0}, t \in {t0}} : TRUE

\* math.Sqrt(a)
Sqrt(a0) ==
    CHOOSE val \in {(
        IF IsNaN(a) THEN NaN
        ELSE IF IsZero(a) THEN a
        ELSE IF a.s = 1 THEN NaN
        ELSE IF IsInf(a) THEN a
        ELSE SqrtEven(a, Max(2 * MantBits + 4 - BBitLen(a.m), 0))
    ) : a \in {a0}} : TRUE

\* the IEEE 754 bit pattern of a: sign, biased exponent, fraction
Bits(a0) ==
    CHOOSE val \in {(
        IF IsNaN(a) THEN <<0, 2047, BPow2(51)>>
        ELSE IF IsInf(a) THEN <<a.s, 2047, <<>>>>
        ELSE IF IsNormal(a) THEN <<a.s, a.e + 1075, BSub(a.m, BPow2(MantBits - 1))>>
        ELSE <<a.s, 0, a.m>>
    ) : a \in {a0}} : TRUE

MaxFloat64 == [k |-> "fin", s |-> 0, e |-> EMax, m |-> BSub(BPow2(MantBits), <<1>>)]
SmallestNonzeroFloat64 == [k |-> "fin", s |-> 0, e |-> EMin, m |-> <<1>>]
One == FromInt(1)

(***************************************************************************)
(* Memory.  mem maps each live variable to its value: a struct [X, Y], a   *)
(* float64, a pointer (the name of the variable pointed to, or NIL) or an  *)
(* interface value [type, val].  A call returns a Result: the memory it    *)
(* leaves, the value returned, the lines written to standard output and    *)
(* whether it panicked.                                                    *)
(***************************************************************************)
NIL == "nil"
Void == [k |-> "void", s |-> 0, e |-> 0, m |-> <<>>]

Ok(m, r, o) == [mem |-> m, ret |-> r, out |-> o, panic |-> FALSE]
Panic(m, o) == [mem |-> m, ret |-> Void, out |-> o, panic |-> TRUE]

\* a parameter or value receiver: a fresh variable of the callee holding a copy
Local(m, name, val) == (name :> val) @@ m
\* the callee's variable dies on return
Drop(m, name) == [x \in DOMAIN m \ {name} |-> m[x]]

\* a piece of a printed line: text, a float64 in %v format, or the address of
\* the variable x in %v format (0x and hexadecimal digits)
Str(t) == [kind |-> "text", text |-> t, num |-> Void]
Num(f) == [kind |-> "float64", text |-> "", num |-> f]
Addr(x) == [kind |-> "address", text |-> x, num |-> Void]

(***************************************************************************)
(* methods-introduction.go                                                 *)
(***************************************************************************)
\* func (v Vertex) Absolute() float64, called on the Vertex at a
Absolute(m, a) ==
    LET m0 == Local(m, "Absolute.v", m[a])
        v == m0["Absolute.v"]
    IN  Ok(Drop(m0, "Absolute.v"), Sqrt(FAdd(FMul(v.X, v.X), FMul(v.Y, v.Y))), <<>>)

\* faulty variant: the square root left out
AbsoluteFunctionSquared(m, a) ==
    LET m0 == Local(m, "AbsoluteFunction.v", m[a])
        v == m0["AbsoluteFunction.v"]
    IN  Ok(Drop(m0, "AbsoluteFunction.v"), FAdd(FMul(v.X, v.X), FMul(v.Y, v.Y)), <<>>)

\* func AbsoluteFunction(v Vertex) float64, called with the Vertex at a
AbsoluteFunction(m, a) ==
    LET m0 == Local(m, "AbsoluteFunction.v", m[a])
        v == m0["AbsoluteFunction.v"]
    IN  Ok(Drop(m0, "AbsoluteFunction.v"), Sqrt(FAdd(FMul(v.X, v.X), FMul(v.Y, v.Y))), <<>>)

\* func (f MyCustomFloat) Abs() float64, called on the MyCustomFloat value f
MyCustomFloatAbs(m, f) ==
    LET m0 == Local(m, "Abs.f", f)
    IN  Ok(Drop(m0, "Abs.f"),
           IF FLtZero(m0["Abs.f"]) THEN FNeg(m0["Abs.f"]) ELSE m0["Abs.f"], <<>>)

\* faulty variant: the receiver declared as a pointer, so the caller's
\* variable is scaled
ScaleWithValueThroughAddress(m, a, f) ==
    LET m1 == [m EXCEPT ![a].X = FMul(m[a].X, f)]
        m2 == [m1 EXCEPT ![a].Y = FMul(m1[a].Y, f)]
    IN  Ok(m2, Void, <<>>)

\* func (v Vertex) ScaleWithValue(f float64), called on the Vertex at a
ScaleWithValue(m, a, f) ==
    LET m0 == Local(m, "ScaleWithValue.v", m[a])
        m1 == [m0 EXCEPT !["ScaleWithValue.v"].X = FMul(m0["ScaleWithValue.v"].X, f)]
        m2 == [m1 EXCEPT !["ScaleWithValue.v"].Y = FMul(m1["ScaleWithValue.v"].Y, f)]
    IN  Ok(Drop(m2, "ScaleWithValue.v"), Void, <<>>)

\* func (v *Vertex) ScaleWithPointer(f float64), called with receiver v
ScaleWithPointer(m, v, f) ==
    IF v = NIL THEN Panic(m, <<>>)
    ELSE LET m1 == [m EXCEPT ![v].X = FMul(m[v].X, f)]
             m2 == [m1 EXCEPT ![v].Y = FMul(m1[v].Y, f)]
         IN  Ok(m2, Void, <<>>)

\* func ScaleWithValueFunction(v Vertex, f float64), called with the Vertex at a
ScaleWithValueFunction(m, a, f) ==
    LET m0 == Local(m, "ScaleWithValueFunction.v", m[a])
        m1 == [m0 EXCEPT !["ScaleWithValueFunction.v"].X = FMul(m0["ScaleWithValueFunction.v"].X, f)]
        m2 == [m1 EXCEPT !["ScaleWithValueFunction.v"].Y = FMul(m1["ScaleWithValueFunction.v"].Y, f)]
    IN  Ok(Drop(m2, "ScaleWithValueFunction.v"), Void, <<>>)

\* faulty variant: the parameter declared as a value, so a copy is scaled
ScaleWithPointerFunctionOnCopy(m, v, f) ==
    IF v = NIL THEN Panic(m, <<>>)
    ELSE LET m0 == Local(m, "ScaleWithPointerFunction.v", m[v])
             m1 == [m0 EXCEPT !["ScaleWithPointerFunction.v"].X = FMul(m0["ScaleWithPointerFunction.v"].X, f)]
             m2 == [m1 EXCEPT !["ScaleWithPointerFunction.v"].Y = FMul(m1["ScaleWithPointerFunction.v"].Y, f)]
         IN  Ok(Drop(m2, "ScaleWithPointerFunction.v"), Void, <<>>)

\* func ScaleWithPointerFunction(v *Vertex, f float64)
ScaleWithPointerFunction(m, v, f) ==
    IF v = NIL THEN Panic(m, <<>>)
    ELSE LET m1 == [m EXCEPT ![v].X = FMul(m[v].X, f)]
             m2 == [m1 EXCEPT ![v].Y = FMul(m1[v].Y, f)]
         IN  Ok(m2, Void, <<>>)

(***************************************************************************)
(* methods-interfaces.go                                                   *)
(***************************************************************************)
\* faulty variant: no test for a nil receiver, so v.X dereferences nil
CoordinateAbsUnguarded(m, v) ==
    IF v = NIL THEN Panic(m, <<>>)
    ELSE Ok(m, Sqrt(FAdd(FMul(m[v].X, m[v].X), FMul(m[v].Y, m[v].Y))), <<>>)

\* faulty variant: the squares stored in the receiver's fields
CoordinateAbsInPlace(m, v) ==
    IF v = NIL THEN Ok(m, Zero(0), <<<<Str("<nil>")>>>>)
    ELSE LET m1 == [m EXCEPT ![v].X = FMul(m[v].X, m[v].X)]
             m2 == [m1 EXCEPT ![v].Y = FMul(m1[v].Y, m1[v].Y)]
         IN  Ok(m2, Sqrt(FAdd(m2[v].X, m2[v].Y)), <<>>)

\* func (v *Coordinate) Abs() float64, called with receiver v
CoordinateAbs(m, v) ==
    IF v = NIL THEN Ok(m, Zero(0), <<<<Str("<nil>")>>>>)
    ELSE Ok(m, Sqrt(FAdd(FMul(m[v].X, m[v].X), FMul(m[v].Y, m[v].Y))), <<>>)

\* faulty variant: Y computed from the X already scaled
ScaleFromScaledX(m, v, f) ==
    IF v = NIL THEN Panic(m, <<>>)
    ELSE LET m1 == [m EXCEPT ![v].X = FMul(m[v].X, f)]
             m2 == [m1 EXCEPT ![v].Y = FMul(m1[v].X, f)]
         IN  Ok(m2, Void, <<>>)

\* func (v *Coordinate) Scale(f float64), called with receiver v
Scale(m, v, f) ==
    IF v = NIL THEN Panic(m, <<>>)
    ELSE LET m1 == [m EXCEPT ![v].X = FMul(m[v].X, f)]
             m2 == [m1 EXCEPT ![v].Y = FMul(m1[v].Y, f)]
         IN  Ok(m2, Void, <<>>)

\* faulty variant: the sign test left out
MyFloatAbsSigned(m, f) ==
    LET m0 == Local(m, "Abs.f", f)
    IN  Ok(Drop(m0, "Abs.f"), m0["Abs.f"], <<>>)

\* func (f MyFloat) Abs() float64, called on the MyFloat value f
MyFloatAbs(m, f) ==
    LET m0 == Local(m, "Abs.f", f)
    IN  Ok(Drop(m0, "Abs.f"),
           IF FLtZero(m0["Abs.f"]) THEN FNeg(m0["Abs.f"]) ELSE m0["Abs.f"], <<>>)

\* An interface value is the pair (concrete type, value); the zero value of
\* an interface type holds neither.
NoType == "<nil>"
\* The types with a method Abs() float64, which an Absoluteness can hold:
\* MyFloat and MyCustomFloat (value receivers), and so their pointer types,
\* whose Abs is the value method called on the value pointed to; *Coordinate
\* (pointer receiver), and so not Coordinate.
ValueReceiverPointers == {"*methods.MyFloat", "*methods.MyCustomFloat"}
Pointers == {"*methods.Coordinate"} \cup ValueReceiverPointers
\* the value held, in the field of its kind: a float64, a pointer, an int, a
\* string or a Vertex; the other fields are zero
Held(t, v) ==
    [f64 |-> IF t \in {"methods.MyFloat", "methods.MyCustomFloat", "float64"} THEN v ELSE Void,
     ptr |-> IF t \in Pointers THEN v ELSE NIL,
     int |-> IF t = "int" THEN v ELSE 0,
     str |-> IF t = "string" THEN v ELSE "",
     xy |-> IF t = "methods.Vertex" THEN v ELSE [X |-> Void, Y |-> Void]]
NilInterface == [type |-> NoType, val |-> Held(NoType, NIL)]
\* the conversion of a value of concrete type t to an interface type
Interface(t, v) == [type |-> t, val |-> Held(t, v)]
IsNilInterface(i) == i.type = NoType

\* faulty variant: an interface value holding a nil pointer taken for a nil
\* interface value
AbsolutenessAbsNilPayload(m, i) ==
    IF i.type = NoType THEN Panic(m, <<>>)
    ELSE IF i.type = "methods.MyFloat" THEN MyFloatAbs(m, i.val.f64)
    ELSE IF i.type = "methods.MyCustomFloat" THEN MyCustomFloatAbs(m, i.val.f64)
    ELSE IF i.val.ptr = NIL THEN Panic(m, <<>>)
    ELSE IF i.type = "*methods.Coordinate" THEN CoordinateAbs(m, i.val.ptr)
    ELSE IF i.type = "*methods.MyFloat" THEN MyFloatAbs(m, m[i.val.ptr])
    ELSE MyCustomFloatAbs(m, m[i.val.ptr])

\* i.Abs() for i of type Absoluteness: the method of the concrete type held.
\* With no type held there is no method to call: a panic.  Through a pointer
\* to a MyFloat or a MyCustomFloat the value method gets a copy of the value
\* pointed to, and a nil pointer has none: a panic.  A *Coordinate is itself
\* the receiver of Coordinate.Abs, nil or not.
AbsolutenessAbs(m, i) ==
    IF i.type = NoType THEN Panic(m, <<>>)
    ELSE IF i.type = "methods.MyFloat" THEN MyFloatAbs(m, i.val.f64)
    ELSE IF i.type = "methods.MyCustomFloat" THEN MyCustomFloatAbs(m, i.val.f64)
    ELSE IF i.type = "*methods.Coordinate" THEN CoordinateAbs(m, i.val.ptr)
    ELSE IF i.val.ptr = NIL THEN Panic(m, <<>>)
    ELSE IF i.type = "*methods.MyFloat" THEN MyFloatAbs(m, m[i.val.ptr])
    ELSE MyCustomFloatAbs(m, m[i.val.ptr])

\* fmt's %v of the value held by an interface value
FormatV(m, i) ==
    IF i.type = NoType THEN <<Str("<nil>")>>
    ELSE IF i.type \in {"methods.MyFloat", "methods.MyCustomFloat", "float64"} THEN <<Num(i.val.f64)>>
    ELSE IF i.type = "*methods.Coordinate"
    THEN (IF i.val.ptr = NIL THEN <<Str("<nil>")>>
          ELSE <<Str("&{"), Num(m[i.val.ptr].X), Str(" "), Num(m[i.val.ptr].Y), Str("}")>>)
    ELSE IF i.type \in ValueReceiverPointers
    THEN (IF i.val.ptr = NIL THEN <<Str("<nil>")>> ELSE <<Addr(i.val.ptr)>>)
    ELSE IF i.type = "methods.Vertex"
    THEN <<Str("{"), Num(i.val.xy.X), Str(" "), Num(i.val.xy.Y), Str("}")>>
    ELSE IF i.type = "int" THEN <<Str(ToString(i.val.int))>>
    ELSE <<Str(i.val.str)>>

\* fmt's %T of an interface value
FormatT(i) == <<Str(i.type)>>

\* fmt.Printf("(%v, %T)\n", i, i)
DescribeLine(m, i) == <<Str("(")>> \o FormatV(m, i) \o <<Str(", ")>> \o FormatT(i) \o <<Str(")")>>

\* func Describe(i Absoluteness)
Describe(m, i) == Ok(m, Void, <<DescribeLine(m, i)>>)

\* faulty variant: the format "(%v, %v)\n"
DescribeGenericValueTwice(m, i) ==
    Ok(m, Void, <<<<Str("(")>> \o FormatV(m, i) \o <<Str(", ")>> \o FormatV(m, i) \o <<Str(")")>>>>)

\* func DescribeGeneric(i interface{})
DescribeGeneric(m, i) == Ok(m, Void, <<DescribeLine(m, i)>>)

\* fmt.Println(args...): the operands in %v format, a space between each two
RECURSIVE PrintlnLine(_, _)
PrintlnLine(m, args) ==
    IF args = <<>> THEN <<>>
    ELSE FormatV(m, Head(args))
         \o (IF Len(args) > 1 THEN <<Str(" ")>> ELSE <<>>)
         \o PrintlnLine(m, Tail(args))

S(t) == Interface("string", t)
F64(f) == Interface("float64", f)
\* a variable assigned or declared
Store(m, x, val) == (x :> val) @@ m

(***************************************************************************)
(* State.  The process is either the command (main) or a client of the     *)
(* package that calls its functions in any order with any arguments.       *)
(***************************************************************************)
VARIABLES
    client,     \* who runs: "main", or the kind of client
    pc,         \* main: the statement to execute next
    mem,        \* the live variables
    out,        \* the lines the last step wrote to standard output
    ret,        \* the value the last call returned, Void if none
    panicked,   \* a run-time panic ended the process
    calls,      \* main: the demonstration routines entered so far
    last,       \* the last step: the function called, its target, its factor
    pre,        \* mem before the last step
    orig,       \* mem at the start
    hist        \* client: the pointer-receiver scalings applied, in order

vars == <<client, pc, mem, out, ret, panicked, calls, last, pre, orig, hist>>

\* op: the function; via: the operand as written, a variable ("v") or a
\* pointer to it ("p"); addr: the variable the call works on; f: the factor
NoCall == [op |-> "", via |-> "", addr |-> "", f |-> Void]
Called(op, via, addr, f) == [op |-> op, via |-> via, addr |-> addr, f |-> f]

\* One step: the call's result r, then the lines the statement itself prints.
Do(r, lines, next, call) ==
    /\ ~panicked
    /\ mem' = r.mem
    /\ ret' = r.ret
    /\ out' = r.out \o (IF r.panic THEN <<>> ELSE lines)
    /\ panicked' = r.panic
    /\ pc' = IF r.panic THEN pc ELSE next
    /\ pre' = mem
    /\ last' = call
    /\ orig' = orig

(***************************************************************************)
(* Inputs of the clients.                                                  *)
(***************************************************************************)
MaxScale == 2

Inputs ==
    { [X |-> FromInt(3), Y |-> FromInt(4), f |-> FromInt(-10)],
      [X |-> FromInt(-3), Y |-> FromInt(-4), f |-> FNeg(Sqrt(FromInt(2)))],
      [X |-> MaxFloat64, Y |-> SmallestNonzeroFloat64, f |-> Zero(1)],
      [X |-> NaN, Y |-> Inf(1), f |-> NaN],
      [X |-> Zero(0), Y |-> Zero(1), f |-> Inf(1)] }

Factors == { FromInt(-49), FromInt(10), SmallestNonzeroFloat64 }

Scaled(f, before, inverse) == [f |-> f, before |-> before, inverse |-> inverse]

(***************************************************************************)
(* A client holding a Vertex v and p = &v.                                 *)
(***************************************************************************)
InitVertexClient ==
    /\ client = "Vertex"
    /\ \E in \in Inputs : mem = Store(Store(<<>>, "v", [X |-> in.X, Y |-> in.Y]), "p", "v")

\* the address a call through v or through p works on: &v, or the value of p
Operand(via) == IF via = "v" THEN "v" ELSE mem["p"]

\* v.ScaleWithValue(f), p.ScaleWithValue(f)
CallScaleWithValue ==
    /\ client = "Vertex"
    /\ \E f \in Factors, via \in {"v", "p"} :
          Do(ScaleWithValue(mem, Operand(via), f), <<>>, pc,
             Called("ScaleWithValue", via, Operand(via), f))
    /\ UNCHANGED <<client, calls, hist>>

\* ScaleWithValueFunction(v, f)
CallScaleWithValueFunction ==
    /\ client = "Vertex"
    /\ \E f \in Factors :
          Do(ScaleWithValueFunction(mem, "v", f), <<>>, pc,
             Called("ScaleWithValueFunction", "v", "v", f))
    /\ UNCHANGED <<client, calls, hist>>

\* v.ScaleWithPointer(f), p.ScaleWithPointer(f)
CallScaleWithPointer ==
    /\ client = "Vertex"
    /\ Len(hist) < MaxScale
    /\ \E f \in Factors, via \in {"v", "p"} :
          /\ Do(ScaleWithPointer(mem, Operand(via), f), <<>>, pc,
                Called("ScaleWithPointer", via, Operand(via), f))
          /\ hist' = Append(hist, Scaled(f, mem["v"], FALSE))
    /\ UNCHANGED <<client, calls>>

\* ScaleWithPointerFunction(&v, f), ScaleWithPointerFunction(p, f)
CallScaleWithPointerFunction ==
    /\ client = "Vertex"
    /\ Len(hist) < MaxScale
    /\ \E f \in Factors, via \in {"v", "p"} :
          /\ Do(ScaleWithPointerFunction(mem, Operand(via), f), <<>>, pc,
                Called("ScaleWithPointerFunction", via, Operand(via), f))
          /\ hist' = Append(hist, Scaled(f, mem["v"], FALSE))
    /\ UNCHANGED <<client, calls>>

\* v.ScaleWithPointer(1 / k) right after a scaling by k
CallScaleWithPointerBack ==
    /\ client = "Vertex"
    /\ last.op \in {"ScaleWithPointer", "ScaleWithPointerFunction"}
    /\ ~hist[Len(hist)].inverse
    /\ Len(hist) < MaxScale
    /\ \E f \in {FDiv(One, hist[Len(hist)].f)} :
           /\ Do(ScaleWithPointer(mem, "v", f), <<>>, pc,
                 Called("ScaleWithPointer", "v", "v", f))
           /\ hist' = Append(hist, Scaled(f, mem["v"], TRUE))
    /\ UNCHANGED <<client, calls>>

\* v.Absolute()
CallAbsolute ==
    /\ client = "Vertex"
    /\ Do(Absolute(mem, "v"), <<>>, pc, Called("Absolute", "v", "v", Void))
    /\ UNCHANGED <<client, calls, hist>>

\* AbsoluteFunction(v)
CallAbsoluteFunction ==
    /\ client = "Vertex"
    /\ Do(AbsoluteFunction(mem, "v"), <<>>, pc, Called("AbsoluteFunction", "v", "v", Void))
    /\ UNCHANGED <<client, calls, hist>>

VertexClient ==
    \/ CallScaleWithValue
    \/ CallScaleWithValueFunction
    \/ CallScaleWithPointer
    \/ CallScaleWithPointerFunction
    \/ CallScaleWithPointerBack
    \/ CallAbsolute
    \/ CallAbsoluteFunction

(***************************************************************************)
(* A client holding a Coordinate c.                                        *)
(***************************************************************************)
InitCoordinateClient ==
    /\ client = "Coordinate"
    /\ \E in \in Inputs : mem = Store(<<>>, "c", [X |-> in.X, Y |-> in.Y])

\* c.Scale(f)
CallScale ==
    /\ client = "Coordinate"
    /\ Len(hist) < MaxScale
    /\ \E f \in Factors :
          /\ Do(Scale(mem, "c", f), <<>>, pc, Called("Scale", "c", "c", f))
          /\ hist' = Append(hist, Scaled(f, mem["c"], FALSE))
    /\ UNCHANGED <<client, calls>>

\* c.Scale(1 / k) right after a scaling by k
CallScaleBack ==
    /\ client = "Coordinate"
    /\ last.op = "Scale"
    /\ ~hist[Len(hist)].inverse
    /\ Len(hist) < MaxScale
    /\ \E f \in {FDiv(One, hist[Len(hist)].f)} :
           /\ Do(Scale(mem, "c", f), <<>>, pc, Called("Scale", "c", "c", f))
           /\ hist' = Append(hist, Scaled(f, mem["c"], TRUE))
    /\ UNCHANGED <<client, calls>>

\* c.Abs()
CallAbs ==
    /\ client = "Coordinate"
    /\ Do(CoordinateAbs(mem, "c"), <<>>, pc, Called("Coordinate.Abs", "c", "c", Void))
    /\ UNCHANGED <<client, calls, hist>>

CoordinateClient == CallScale \/ CallScaleBack \/ CallAbs

(***************************************************************************)
(* A client holding the containers: a of type Absoluteness and i of type   *)
(* interface{}, beside a MyFloat, a MyCustomFloat, a Coordinate and a nil  *)
(* *Coordinate b.  It assigns to a a value of each type that has the       *)
(* method Abs.                                                             *)
(***************************************************************************)
InitContainerClient ==
    /\ client = "containers"
    /\ \E in \in Inputs :
          mem = [myCoordinate |-> [X |-> in.X, Y |-> in.Y], b |-> NIL,
                 myFloat |-> in.f, myCustomFloat |-> in.f,
                 a |-> NilInterface, i |-> NilInterface]

Assigned(x) == Called("=", x, x, Void)

\* a = myFloat
AssignMyFloat ==
    /\ client = "containers"
    /\ Do(Ok(Store(mem, "a", Interface("methods.MyFloat", mem["myFloat"])), Void, <<>>),
          <<>>, pc, Assigned("a"))
    /\ UNCHANGED <<client, calls, hist>>

\* a = &myCoordinate
AssignCoordinate ==
    /\ client = "containers"
    /\ Do(Ok(Store(mem, "a", Interface("*methods.Coordinate", "myCoordinate")), Void, <<>>),
          <<>>, pc, Assigned("a"))
    /\ UNCHANGED <<client, calls, hist>>

\* a = myCustomFloat
AssignMyCustomFloat ==
    /\ client = "containers"
    /\ Do(Ok(Store(mem, "a", Interface("methods.MyCustomFloat", mem["myCustomFloat"])), Void, <<>>),
          <<>>, pc, Assigned("a"))
    /\ UNCHANGED <<client, calls, hist>>

\* a = &myFloat, a = &myCustomFloat, a = (*MyFloat)(nil),
\* a = (*MyCustomFloat)(nil)
AssignValuePointer ==
    /\ client = "containers"
    /\ \E t \in ValueReceiverPointers :
       \E p \in {NIL, IF t = "*methods.MyFloat" THEN "myFloat" ELSE "myCustomFloat"} :
          Do(Ok(Store(mem, "a", Interface(t, p)), Void, <<>>), <<>>, pc, Assigned("a"))
    /\ UNCHANGED <<client, calls, hist>>

\* a = b
AssignNilPointer ==
    /\ client = "containers"
    /\ Do(Ok(Store(mem, "a", Interface("*methods.Coordinate", mem["b"])), Void, <<>>),
          <<>>, pc, Assigned("a"))
    /\ UNCHANGED <<client, calls, hist>>

\* a.Abs()
CallAbsolutenessAbs ==
    /\ client = "containers"
    /\ Do(AbsolutenessAbs(mem, mem["a"]), <<>>, pc, Called("Absoluteness.Abs", "a", "a", Void))
    /\ UNCHANGED <<client, calls, hist>>

\* Describe(a)
CallDescribe ==
    /\ client = "containers"
    /\ Do(Describe(mem, mem["a"]), <<>>, pc, Called("Describe", "a", "a", Void))
    /\ UNCHANGED <<client, calls, hist>>

\* Describe(b)
CallDescribePointer ==
    /\ client = "containers"
    /\ Do(Describe(mem, Interface("*methods.Coordinate", mem["b"])), <<>>, pc,
          Called("Describe", "b", "b", Void))
    /\ UNCHANGED <<client, calls, hist>>

\* b.Abs()
CallNilAbs ==
    /\ client = "containers"
    /\ Do(CoordinateAbs(mem, mem["b"]), <<>>, pc, Called("Coordinate.Abs", "b", mem["b"], Void))
    /\ UNCHANGED <<client, calls, hist>>

\* myFloat.Abs()
CallMyFloatAbs ==
    /\ client = "containers"
    /\ Do(MyFloatAbs(mem, mem["myFloat"]), <<>>, pc,
          Called("MyFloat.Abs", "myFloat", "myFloat", Void))
    /\ UNCHANGED <<client, calls, hist>>

\* myCustomFloat.Abs()
CallMyCustomFloatAbs ==
    /\ client = "containers"
    /\ Do(MyCustomFloatAbs(mem, mem["myCustomFloat"]), <<>>, pc,
          Called("MyCustomFloat.Abs", "myCustomFloat", "myCustomFloat", Void))
    /\ UNCHANGED <<client, calls, hist>>

\* i = 42, i = "hello"
AssignAny ==
    /\ client = "containers"
    /\ \E t \in {"int", "string"} :
          Do(Ok(Store(mem, "i", IF t = "int" THEN Interface("int", 42)
                                ELSE Interface("string", "hello")), Void, <<>>),
             <<>>, pc, Assigned("i"))
    /\ UNCHANGED <<client, calls, hist>>

\* DescribeGeneric(i)
CallDescribeGeneric ==
    /\ client = "containers"
    /\ Do(DescribeGeneric(mem, mem["i"]), <<>>, pc, Called("DescribeGeneric", "i", "i", Void))
    /\ UNCHANGED <<client, calls, hist>>

ContainerClient ==
    \/ AssignMyFloat
    \/ AssignCoordinate
    \/ AssignMyCustomFloat
    \/ AssignValuePointer
    \/ AssignNilPointer
    \/ CallAbsolutenessAbs
    \/ CallDescribe
    \/ CallDescribePointer
    \/ CallNilAbs
    \/ CallMyFloatAbs
    \/ CallMyCustomFloatAbs
    \/ AssignAny
    \/ CallDescribeGeneric

(***************************************************************************)
(* The command.  pc names the statement to execute next by function and    *)
(* source line; each statement is one step.                                *)
(***************************************************************************)
InitMain ==
    /\ client = "main"
    /\ mem = <<>>

At(l) == client = "main" /\ pc = l

\* a statement that is no call of the package: a declaration, an assignment
Plain(m, lines, next) ==
    /\ Do(Ok(m, Void, <<>>), lines, next, NoCall)
    /\ UNCHANGED <<client, calls, hist>>

\* a statement that calls the package: the call's result r, then its own lines
Stmt(r, lines, next, call) ==
    /\ Do(r, lines, next, call)
    /\ UNCHANGED <<client, calls, hist>>

\* entering a demonstration routine
Enter(name, next) ==
    /\ Do(Ok(mem, Void, <<>>), <<>>, next, NoCall)
    /\ calls' = Append(calls, name)
    /\ UNCHANGED <<client, hist>>

Vertex34 == [X |-> FromInt(3), Y |-> FromInt(4)]
V(x) == Interface("methods.Vertex", mem[x])

Main10 == At("main:10") /\ Plain(mem, <<PrintlnLine(mem, <<S("Methods in Go:")>>)>>, "main:12")
Main12 == At("main:12") /\ Plain(mem, <<PrintlnLine(mem, <<S("\nIntroduction-")>>)>>, "main:13")
\* faulty variant: the second routine called in place of the first
Main13Interfaces == At("main:13") /\ Enter("DemoImplementationMethodsAndInterface", "iface:69")
Main13 == At("main:13") /\ Enter("DemoImplementationMethodsIntroduction", "intro:89")
Main15 == At("main:15") /\ Plain(mem, <<PrintlnLine(mem, <<S("\nInterfaces-")>>)>>, "main:16")
Main16 == At("main:16") /\ Enter("DemoImplementationMethodsAndInterface", "iface:69")
Main17 == At("main:17") /\ Plain(mem, <<>>, "done")

main == Main10 \/ Main12 \/ Main13 \/ Main15 \/ Main16 \/ Main17

Intro89 == At("intro:89") /\ Plain(Store(mem, "v1", Vertex34), <<>>, "intro:90")
Intro90 ==
    /\ At("intro:90")
    /\ \E r \in {Absolute(mem, "v1")} :
           Stmt(r, <<PrintlnLine(r.mem, <<S("Method call (v1):"), F64(r.ret)>>)>>,
                "intro:91", Called("Absolute", "v", "v1", Void))
Intro91 ==
    /\ At("intro:91")
    /\ \E r \in {AbsoluteFunction(mem, "v1")} :
           Stmt(r, <<PrintlnLine(r.mem, <<S("Function call (v1):"), F64(r.ret)>>)>>,
                "intro:93", Called("AbsoluteFunction", "v", "v1", Void))
Intro93 == At("intro:93") /\ Plain(Store(mem, "myCustomFloat", FromInt(-10)), <<>>, "intro:94")
Intro94 ==
    /\ At("intro:94")
    /\ \E r \in {MyCustomFloatAbs(mem, mem["myCustomFloat"])} :
           Stmt(r, <<PrintlnLine(r.mem, <<S("Abs method call (v1):"), F64(r.ret)>>)>>,
                "intro:96", Called("MyCustomFloat.Abs", "myCustomFloat", "myCustomFloat", Void))
Intro96 ==
    /\ At("intro:96")
    /\ Stmt(ScaleWithValue(mem, "v1", FromInt(10)), <<>>, "intro:97",
            Called("ScaleWithValue", "v", "v1", FromInt(10)))
Intro97 ==
    /\ At("intro:97")
    /\ \E r \in {Absolute(mem, "v1")} :
           Stmt(r, <<PrintlnLine(r.mem, <<S("Value receiver method call (v1):"), V("v1"), F64(r.ret)>>)>>,
                "intro:98", Called("Absolute", "v", "v1", Void))
Intro98 ==
    /\ At("intro:98")
    /\ Stmt(ScaleWithPointer(mem, "v1", FromInt(10)), <<>>, "intro:99",
            Called("ScaleWithPointer", "v", "v1", FromInt(10)))
Intro99 ==
    /\ At("intro:99")
    /\ \E r \in {Absolute(mem, "v1")} :
           Stmt(r, <<PrintlnLine(r.mem, <<S("Pointer receiver method call (v1):"), V("v1"), F64(r.ret)>>)>>,
                "intro:102", Called("Absolute", "v", "v1", Void))
Intro102 == At("intro:102") /\ Plain(Store(mem, "v1", Vertex34), <<>>, "intro:103")
Intro103 ==
    /\ At("intro:103")
    /\ Stmt(ScaleWithValueFunction(mem, "v1", FromInt(10)), <<>>, "intro:104",
            Called("ScaleWithValueFunction", "v", "v1", FromInt(10)))
Intro104 ==
    /\ At("intro:104")
    /\ \E r \in {Absolute(mem, "v1")} :
           Stmt(r, <<PrintlnLine(r.mem, <<S("Function call with value (v1):"), V("v1"), F64(r.ret)>>)>>,
                "intro:105", Called("Absolute", "v", "v1", Void))
Intro105 ==
    /\ At("intro:105")
    /\ Stmt(ScaleWithPointerFunction(mem, "v1", FromInt(10)), <<>>, "intro:106",
            Called("ScaleWithPointerFunction", "v", "v1", FromInt(10)))
Intro106 ==
    /\ At("intro:106")
    /\ \E r \in {Absolute(mem, "v1")} :
           Stmt(r, <<PrintlnLine(r.mem, <<S("Function call with pointer (v1):"), V("v1"), F64(r.ret)>>)>>,
                "intro:109", Called("Absolute", "v", "v1", Void))
Intro109 == At("intro:109") /\ Plain(Store(mem, "v2", Vertex34), <<>>, "intro:110")
Intro110 == At("intro:110") /\ Plain(Store(mem, "p2", "v2"), <<>>, "intro:115")
Intro115 ==
    /\ At("intro:115")
    /\ Stmt(ScaleWithPointerFunction(mem, "v2", FromInt(2)), <<>>, "intro:116",
            Called("ScaleWithPointerFunction", "v", "v2", FromInt(2)))
Intro116 ==
    At("intro:116") /\ Plain(mem, <<PrintlnLine(mem, <<S("Function call with pointer (v2):"), V("v2")>>)>>, "intro:117")
Intro117 ==
    /\ At("intro:117")
    /\ Stmt(ScaleWithPointerFunction(mem, mem["p2"], FromInt(2)), <<>>, "intro:118",
            Called("ScaleWithPointerFunction", "p", mem["p2"], FromInt(2)))
Intro118 ==
    At("intro:118") /\ Plain(mem, <<PrintlnLine(mem, <<S("Function call with pointer (p2):"), V("v2")>>)>>, "intro:125")
Intro125 ==
    /\ At("intro:125")
    /\ Stmt(ScaleWithPointer(mem, "v2", FromInt(2)), <<>>, "intro:126",
            Called("ScaleWithPointer", "v", "v2", FromInt(2)))
Intro126 ==
    At("intro:126") /\ Plain(mem, <<PrintlnLine(mem, <<S("Pointer receiver method call (v2):"), V("v2")>>)>>, "intro:127")
Intro127 ==
    /\ At("intro:127")
    /\ Stmt(ScaleWithPointer(mem, mem["p2"], FromInt(2)), <<>>, "intro:128",
            Called("ScaleWithPointer", "p", mem["p2"], FromInt(2)))
Intro128 ==
    At("intro:128") /\ Plain(mem, <<PrintlnLine(mem, <<S("Pointer receiver method call (p2):"), V("v2")>>)>>, "intro:136")
Intro136 == At("intro:136") /\ Plain(Store(mem, "v3", Vertex34), <<>>, "intro:137")
Intro137 == At("intro:137") /\ Plain(Store(mem, "p3", "v3"), <<>>, "intro:142")
Intro142 ==
    /\ At("intro:142")
    /\ Stmt(ScaleWithValueFunction(mem, "v3", FromInt(3)), <<>>, "intro:143",
            Called("ScaleWithValueFunction", "v", "v3", FromInt(3)))
Intro143 ==
    At("intro:143") /\ Plain(mem, <<PrintlnLine(mem, <<S("Function call with pointer (v3):"), V("v3")>>)>>, "intro:144")
Intro144 ==
    /\ At("intro:144")
    /\ Stmt(ScaleWithValueFunction(mem, mem["p3"], FromInt(3)), <<>>, "intro:145",
            Called("ScaleWithValueFunction", "p", mem["p3"], FromInt(3)))
Intro145 ==
    At("intro:145") /\ Plain(mem, <<PrintlnLine(mem, <<S("Function call with pointer (p3):"), V("v3")>>)>>, "intro:152")
Intro152 ==
    /\ At("intro:152")
    /\ Stmt(ScaleWithValue(mem, "v3", FromInt(3)), <<>>, "intro:153",
            Called("ScaleWithValue", "v", "v3", FromInt(3)))
Intro153 ==
    At("intro:153") /\ Plain(mem, <<PrintlnLine(mem, <<S("Value receiver method call (v3):"), V("v3")>>)>>, "intro:154")
Intro154 ==
    /\ At("intro:154")
    /\ Stmt(ScaleWithValue(mem, mem["p3"], FromInt(3)), <<>>, "intro:155",
            Called("ScaleWithValue", "p", mem["p3"], FromInt(3)))
Intro155 ==
    At("intro:155") /\ Plain(mem, <<PrintlnLine(mem, <<S("Value receiver method call (p3):"), V("v3")>>)>>, "intro:157")
\* the routine returns: its variables die
Intro157 == At("intro:157") /\ Plain(<<>>, <<>>, "main:15")

DemoImplementationMethodsIntroduction ==
    \/ Intro89 \/ Intro90 \/ Intro91 \/ Intro93 \/ Intro94 \/ Intro96 \/ Intro97
    \/ Intro98 \/ Intro99 \/ Intro102 \/ Intro103 \/ Intro104 \/ Intro105
    \/ Intro106 \/ Intro109 \/ Intro110 \/ Intro115 \/ Intro116 \/ Intro117
    \/ Intro118 \/ Intro125 \/ Intro126 \/ Intro127 \/ Intro128 \/ Intro136
    \/ Intro137 \/ Intro142 \/ Intro143 \/ Intro144 \/ Intro145 \/ Intro152
    \/ Intro153 \/ Intro154 \/ Intro155 \/ Intro157

Iface69 == At("iface:69") /\ Plain(Store(mem, "a", NilInterface), <<>>, "iface:71")
Iface71 == At("iface:71") /\ Plain(Store(mem, "myFloat", FNeg(Sqrt(FromInt(2)))), <<>>, "iface:72")
Iface72 ==
    At("iface:72") /\ Plain(Store(mem, "myCoordinate", [X |-> FromInt(-3), Y |-> FromInt(-4)]), <<>>, "iface:74")
Iface74 ==
    At("iface:74") /\ Plain(Store(mem, "a", Interface("methods.MyFloat", mem["myFloat"])), <<>>, "iface:75")
Iface75 ==
    /\ At("iface:75")
    /\ \E r \in {AbsolutenessAbs(mem, mem["a"])} :
           Stmt(r, <<PrintlnLine(r.mem, <<S("Abs method called on MyFloat:"), F64(r.ret)>>)>>,
                "iface:76", Called("Absoluteness.Abs", "a", "a", Void))
Iface76 ==
    At("iface:76") /\ Stmt(Describe(mem, mem["a"]), <<>>, "iface:79", Called("Describe", "a", "a", Void))
Iface79 ==
    At("iface:79") /\ Plain(Store(mem, "a", Interface("*methods.Coordinate", "myCoordinate")), <<>>, "iface:80")
Iface80 ==
    /\ At("iface:80")
    /\ \E r \in {AbsolutenessAbs(mem, mem["a"])} :
           Stmt(r, <<PrintlnLine(r.mem, <<S("Abs method called on Coordinate:"), F64(r.ret)>>)>>,
                "iface:81", Called("Absoluteness.Abs", "a", "a", Void))
Iface81 ==
    At("iface:81") /\ Stmt(Describe(mem, mem["a"]), <<>>, "iface:91", Called("Describe", "a", "a", Void))
Iface91 == At("iface:91") /\ Plain(Store(mem, "b", NIL), <<>>, "iface:92")
Iface92 ==
    /\ At("iface:92")
    /\ Stmt(Describe(mem, Interface("*methods.Coordinate", mem["b"])), <<>>, "iface:94",
            Called("Describe", "b", "b", Void))
Iface94 ==
    At("iface:94") /\ Stmt(CoordinateAbs(mem, mem["b"]), <<>>, "iface:108", Called("Coordinate.Abs", "b", mem["b"], Void))
Iface108 == At("iface:108") /\ Plain(Store(mem, "i", NilInterface), <<>>, "iface:109")
Iface109 ==
    At("iface:109") /\ Stmt(DescribeGeneric(mem, mem["i"]), <<>>, "iface:110", Called("DescribeGeneric", "i", "i", Void))
Iface110 == At("iface:110") /\ Plain(Store(mem, "i", Interface("int", 42)), <<>>, "iface:111")
Iface111 ==
    At("iface:111") /\ Stmt(DescribeGeneric(mem, mem["i"]), <<>>, "iface:112", Called("DescribeGeneric", "i", "i", Void))
Iface112 == At("iface:112") /\ Plain(Store(mem, "i", Interface("string", "hello")), <<>>, "iface:113")
Iface113 ==
    At("iface:113") /\ Stmt(DescribeGeneric(mem, mem["i"]), <<>>, "iface:114", Called("DescribeGeneric", "i", "i", Void))
Iface114 == At("iface:114") /\ Plain(<<>>, <<>>, "main:17")

DemoImplementationMethodsAndInterface ==
    \/ Iface69 \/ Iface71 \/ Iface72 \/ Iface74 \/ Iface75 \/ Iface76 \/ Iface79
    \/ Iface80 \/ Iface81 \/ Iface91 \/ Iface92 \/ Iface94 \/ Iface108
    \/ Iface109 \/ Iface110 \/ Iface111 \/ Iface112 \/ Iface113 \/ Iface114

(***************************************************************************)
(* The specification.                                                      *)
(***************************************************************************)
Init ==
    /\ InitMain \/ InitVertexClient \/ InitCoordinateClient \/ InitContainerClient
    /\ pc = IF client = "main" THEN "main:10" ELSE "client"
    /\ out = <<>>
    /\ ret = Void
    /\ panicked = FALSE
    /\ calls = <<>>
    /\ last = NoCall
    /\ pre = mem
    /\ orig = mem
    /\ hist = <<>>

Next ==
    \/ main
    \/ DemoImplementationMethodsIntroduction
    \/ DemoImplementationMethodsAndInterface
    \/ VertexClient
    \/ CoordinateClient
    \/ ContainerClient

Spec == Init /\ [][Next]_vars

\* the command runs on as long as it can: one sequential thread of control
FairSpec == Spec /\ WF_vars(main \/ DemoImplementationMethodsIntroduction \/ DemoImplementationMethodsAndInterface)

(***************************************************************************)
(* Properties.                                                             *)
(***************************************************************************)
ValueScalings == {"ScaleWithValue", "ScaleWithValueFunction"}
PointerScalings == {"ScaleWithPointer", "ScaleWithPointerFunction"}
MagnitudeCalls ==
    {"Absolute", "AbsoluteFunction", "MyFloat.Abs", "MyCustomFloat.Abs",
     "Coordinate.Abs", "Absoluteness.Abs"}

\* the pair w with both coordinates multiplied by f
Times(w, f) == [X |-> FMul(w.X, f), Y |-> FMul(w.Y, f)]

\* w multiplied by the factors of the first n scalings of h, in order
RECURSIVE ScaledBy(_, _, _)
ScaledBy(w, h, n) == IF n = 0 THEN w ELSE Times(ScaledBy(w, h, n - 1), h[n].f)

\* C1: a value-receiver scaling (v.ScaleWithValue(f), p.ScaleWithValue(f),
\* ScaleWithValueFunction(v, f)) completes and leaves every variable of the
\* caller as it was, and a Vertex that only such calls and magnitude calls
\* have touched, however many, still holds its first coordinates.
ValueScalingKeepsOriginal ==
    /\ last.op \in ValueScalings => ~panicked /\ mem = pre
    /\ (client = "Vertex" /\ hist = <<>>) => mem = orig

\* p.ScaleWithValue(10) on (3, 4) has run, and v is (3, 4)
ValueScalingDone ==
    /\ client = "Vertex"
    /\ last.op = "ScaleWithValue" /\ last.via = "p" /\ last.f = FromInt(10)
    /\ mem["v"] = [X |-> FromInt(3), Y |-> FromInt(4)]

\* C2: a pointer-receiver scaling by f (v.ScaleWithPointer(f),
\* p.ScaleWithPointer(f), ScaleWithPointerFunction(p, f)) leaves the Vertex
\* it is applied to at (x*f, y*f) and nothing else changed; through v and
\* through p = &v it is the same Vertex, so after n such calls v holds its
\* first coordinates multiplied by f1, ..., fn in turn.
PointerScalingReachesOriginal ==
    /\ last.op \in PointerScalings =>
          /\ ~panicked
          /\ mem = [pre EXCEPT ![last.addr] = Times(pre[last.addr], last.f)]
    /\ client = "Vertex" =>
          /\ mem["p"] = "v"
          /\ mem["v"] = ScaledBy(orig["v"], hist, Len(hist))

\* (3, 4) scaled by 10 through v or p, then by -49 through p: v is (-1470, -1960)
PointerScalingTwice ==
    /\ client = "Vertex"
    /\ Len(hist) = 2 /\ hist[1].f = FromInt(10) /\ hist[2].f = FromInt(-49)
    /\ last.op = "ScaleWithPointerFunction" /\ last.via = "p"
    /\ mem["v"] = [X |-> FromInt(-1470), Y |-> FromInt(-1960)]

\* C3: Abs on a nil *Coordinate, called on the pointer or through an
\* Absoluteness holding it, does not panic, returns 0, writes the one line
\* "<nil>" and changes nothing.
NilReceiverAbs ==
    LET direct == last.op = "Coordinate.Abs" /\ last.addr = NIL
        held == /\ last.op = "Absoluteness.Abs"
                /\ pre["a"].type = "*methods.Coordinate"
                /\ pre["a"].val.ptr = NIL
    IN  (direct \/ held) =>
            /\ ~panicked
            /\ ret = Zero(0)
            /\ out = <<<<Str("<nil>")>>>>
            /\ mem = pre

\* the command has run b.Abs() for its nil b
NilReceiverAbsDone ==
    /\ client = "main" /\ pc = "iface:108"
    /\ last.op = "Coordinate.Abs" /\ last.addr = NIL
    /\ mem["b"] = NIL

\* the statement of C4 as written: a.Abs() on an Absoluteness a panics exactly
\* when a holds no type (and so no value); when a holds the type *Coordinate
\* and a nil pointer the call runs Coordinate.Abs without a panic, and that a
\* is not the nil interface value
NilInterfacePanics ==
    /\ last.op = "Absoluteness.Abs" =>
          /\ panicked <=> pre["a"] = NilInterface
          /\ (pre["a"].type = "*methods.Coordinate" /\ pre["a"].val.ptr = NIL) =>
                /\ ~panicked
                /\ [ret |-> ret, out |-> out] =
                       [ret |-> CoordinateAbs(pre, NIL).ret, out |-> CoordinateAbs(pre, NIL).out]
    /\ (client = "containers" /\ last = Assigned("a")) =>
          /\ mem["a"].type # NoType
          /\ ~IsNilInterface(mem["a"])
          /\ (mem["a"].type = "*methods.Coordinate" /\ mem["a"].val.ptr = NIL) =>
                mem["a"] # NilInterface

\* a holds a nil pointer to a type whose Abs has a value receiver
NilValueReceiverPointer(i) == i.type \in ValueReceiverPointers /\ i.val.ptr = NIL

\* C4: a.Abs() on an Absoluteness a panics exactly when a holds no type (and so
\* no value) or holds a nil *MyFloat or a nil *MyCustomFloat, whose Abs works
\* on the value pointed to; when a holds the type *Coordinate and a nil
\* pointer the call runs Coordinate.Abs without a panic, and that a is not the
\* nil interface value.
NilInterfaceOrNilValuePanics ==
    /\ last.op = "Absoluteness.Abs" =>
          /\ panicked <=> (pre["a"] = NilInterface \/ NilValueReceiverPointer(pre["a"]))
          /\ (pre["a"].type = "*methods.Coordinate" /\ pre["a"].val.ptr = NIL) =>
                /\ ~panicked
                /\ [ret |-> ret, out |-> out] =
                       [ret |-> CoordinateAbs(pre, NIL).ret, out |-> CoordinateAbs(pre, NIL).out]
    /\ (client = "containers" /\ last = Assigned("a")) =>
          /\ mem["a"].type # NoType
          /\ ~IsNilInterface(mem["a"])
          /\ (mem["a"].type = "*methods.Coordinate" /\ mem["a"].val.ptr = NIL) =>
                mem["a"] # NilInterface

\* a = b for the nil b, then a.Abs(): no panic
TypedNilAbsDone ==
    /\ client = "containers"
    /\ last.op = "Absoluteness.Abs"
    /\ pre["a"].type = "*methods.Coordinate" /\ pre["a"].val.ptr = NIL
    /\ mem["a"] # NilInterface
    /\ ~panicked

\* C8: a magnitude call that returns (v.Absolute(), AbsoluteFunction(v),
\* Abs on a MyFloat, a MyCustomFloat, a *Coordinate or an Absoluteness)
\* leaves every variable as it was.
MagnitudeKeepsInput ==
    (last.op \in MagnitudeCalls /\ ~panicked) => mem = pre

\* c.Abs() on a Coordinate scaled before has returned 50 for (-30, -40)
MagnitudeDone ==
    /\ client = "Coordinate"
    /\ last.op = "Coordinate.Abs" /\ last.addr = "c"
    /\ ret = FromInt(50)
    /\ mem["c"] = [X |-> FromInt(-30), Y |-> FromInt(-40)]

\* sqrt(x*x + y*y) in float64
Hypot(x, y) == Sqrt(FAdd(FMul(x, x), FMul(y, y)))

\* r is what each of the three magnitude operations returns for the pair at a
SameMagnitude(m, a, r) ==
    /\ r = Absolute(m, a).ret
    /\ r = AbsoluteFunction(m, a).ret
    /\ r = CoordinateAbs(m, a).ret
    /\ r = Hypot(m[a].X, m[a].Y)

\* C5: for one pair (x, y), v.Absolute(), AbsoluteFunction(v) and Abs on a
\* *Coordinate return the same float64, sqrt(x*x + y*y).
MagnitudesAgree ==
    (last.op \in {"Absolute", "AbsoluteFunction", "Coordinate.Abs"} /\ last.addr # NIL) =>
        ~panicked /\ SameMagnitude(pre, last.addr, ret)

\* AbsoluteFunction(v) has returned 5 for (3, 4)
MagnitudesAgreeDone ==
    /\ client = "Vertex"
    /\ last.op = "AbsoluteFunction"
    /\ mem["v"] = [X |-> FromInt(3), Y |-> FromInt(4)]
    /\ ret = FromInt(5)

\* |f|
Magnitude(f) == IF FLtZero(f) THEN FNeg(f) ELSE f

\* C6: a.Abs() runs the method of the type a holds at the call: for a MyFloat f
\* it returns |f|, never below 0; for a *Coordinate to (x, y) it returns
\* sqrt(x*x + y*y).  In the command a holds MyFloat(-sqrt 2) and the call
\* returns sqrt 2, then a holds a pointer to (-3, -4) and the call returns 5.
DispatchByHeldType ==
    /\ (last.op = "Absoluteness.Abs" /\ pre["a"].type = "methods.MyFloat") =>
          /\ ~panicked
          /\ ret = Magnitude(pre["a"].val.f64)
          /\ ~FLtZero(ret)
    /\ (last.op = "Absoluteness.Abs" /\ pre["a"].type = "*methods.Coordinate"
            /\ pre["a"].val.ptr # NIL) =>
          /\ ~panicked
          /\ ret = Hypot(pre[pre["a"].val.ptr].X, pre[pre["a"].val.ptr].Y)
    /\ (client = "main" /\ pc = "iface:76") =>
          /\ pre["a"] = Interface("methods.MyFloat", FNeg(Sqrt(FromInt(2))))
          /\ ret = Sqrt(FromInt(2))
    /\ (client = "main" /\ pc = "iface:81") =>
          /\ pre["a"] = Interface("*methods.Coordinate", "myCoordinate")
          /\ pre["myCoordinate"] = [X |-> FromInt(-3), Y |-> FromInt(-4)]
          /\ ret = FromInt(5)

\* the command has reassigned a from the MyFloat to the *Coordinate and
\* printed what a.Abs() returned, 5
DispatchAfterReassignment ==
    /\ client = "main" /\ pc = "iface:81"
    /\ last.op = "Absoluteness.Abs"
    /\ mem["a"].type = "*methods.Coordinate"
    /\ ret = FromInt(5)
    /\ out = <<<<Str("Abs method called on Coordinate:"), Str(" "), Num(FromInt(5))>>>>

\* the place of a finite float64 among the float64 of its sign, from 0 up
Place(a) == BAdd(BShl(BFromNat(Bits(a)[2]), MantBits - 1), Bits(a)[3])

\* a and b are the same float64, or finite of one sign and at most 4 places
\* (units in the last place) apart
Close(a, b) ==
    \/ a = b
    \/ /\ a.k = "fin" /\ b.k = "fin" /\ a.s = b.s
       /\ BCmp(IF BCmp(Place(a), Place(b)) >= 0 THEN BSub(Place(a), Place(b))
               ELSE BSub(Place(b), Place(a)), <<4>>) <= 0

\* the scaled variable of a client
Scalable == IF client = "Vertex" THEN "v" ELSE "c"

\* the last two scalings were by k and then by 1/k
RoundTrip ==
    /\ client \in {"Vertex", "Coordinate"}
    /\ Len(hist) >= 2
    /\ hist[Len(hist)].inverse

\* the statement of C7 as written, read for numbers (no NaN, no infinity):
\* for every pair (x, y) and every factor k other than 0, scaling by k and
\* then by 1/k restores both coordinates within tolerance
RoundTripRestores ==
    (/\ RoundTrip
     /\ hist[Len(hist) - 1].f.k = "fin" /\ ~IsZero(hist[Len(hist) - 1].f)
     /\ hist[Len(hist) - 1].before.X.k = "fin"
     /\ hist[Len(hist) - 1].before.Y.k = "fin") =>
        /\ Close(mem[Scalable].X, hist[Len(hist) - 1].before.X)
        /\ Close(mem[Scalable].Y, hist[Len(hist) - 1].before.Y)

\* the finite x is at least 4 places below the largest float64 in magnitude
BelowMax(x) == BCmp(BAdd(Place(x), <<4>>), Place(MaxFloat64)) <= 0

\* x, k and 1/k are such that x * k and the product with 1/k each keep 53
\* bits: 1/k is normal, x * k is normal unless x is 0, and x leaves room
\* below the largest float64 for the rounding of the two products
InRange(x, k) ==
    /\ x.k = "fin" /\ k.k = "fin" /\ ~IsZero(k)
    /\ BelowMax(x)
    /\ IsNormal(FDiv(One, k))
    /\ IsZero(x) \/ IsNormal(FMul(x, k))

\* C7: scaling by a finite k other than 0 and then by 1/k, where 1/k is a
\* normal float64, restores within 4 units in the last place each finite
\* coordinate that is at least 4 places below the largest float64 and is 0
\* or has a normal float64 as its product with k.
RoundTripRestoresInRange ==
    RoundTrip =>
        /\ InRange(hist[Len(hist) - 1].before.X, hist[Len(hist) - 1].f) =>
              Close(mem[Scalable].X, hist[Len(hist) - 1].before.X)
        /\ InRange(hist[Len(hist) - 1].before.Y, hist[Len(hist) - 1].f) =>
              Close(mem[Scalable].Y, hist[Len(hist) - 1].before.Y)

\* (3, 4) scaled by -49 and by 1/-49: close to (3, 4), and neither
\* coordinate is what it was
RoundTripInexact ==
    /\ RoundTrip
    /\ client = "Vertex"
    /\ hist[1].f = FromInt(-49)
    /\ hist[1].before = [X |-> FromInt(3), Y |-> FromInt(4)]
    /\ mem["v"].X # FromInt(3) /\ Close(mem["v"].X, FromInt(3))
    /\ mem["v"].Y # FromInt(4) /\ Close(mem["v"].Y, FromInt(4))

\* the line "(v, t)"
Described(v, t) == <<Str("("), Str(v), Str(", "), Str(t), Str(")")>>

\* C9: DescribeGeneric(i) writes one line, the value and the type i holds at
\* the call: "(<nil>, <nil>)" for the nil interface value, "(42, int)" once
\* i = 42, "(hello, string)" once i = "hello"; the command writes the three
\* in this order.
DescribeGenericShowsHeld ==
    /\ last.op = "DescribeGeneric" =>
          /\ ~panicked
          /\ mem = pre
          /\ mem["i"].type = NoType => out = <<Described("<nil>", "<nil>")>>
          /\ mem["i"].type = "int" => mem["i"].val.int = 42 /\ out = <<Described("42", "int")>>
          /\ mem["i"].type = "string" =>
                mem["i"].val.str = "hello" /\ out = <<Described("hello", "string")>>
    /\ (client = "main" /\ pc = "iface:110") => out = <<Described("<nil>", "<nil>")>>
    /\ (client = "main" /\ pc = "iface:112") => out = <<Described("42", "int")>>
    /\ (client = "main" /\ pc = "iface:114") => out = <<Described("hello", "string")>>

\* the command has described i a third time, after i = 42 and then
\* i = "hello": the line shows hello and string
DescribeGenericAfterReassignment ==
    /\ client = "main" /\ pc = "iface:114"
    /\ last.op = "DescribeGeneric"
    /\ pre["i"] = Interface("string", "hello")
    /\ out = <<Described("hello", "string")>>

Routines == <<"DemoImplementationMethodsIntroduction", "DemoImplementationMethodsAndInterface">>

\* the command so far: no panic; the routines entered are the first ones of
\* Routines, in order; each is entered right after its header was written;
\* at the end both were entered
MainInOrder ==
    /\ ~panicked
    /\ Len(calls) <= Len(Routines)
    /\ calls = SubSeq(Routines, 1, Len(calls))
    /\ pc = "main:13" => calls = <<>> /\ out = <<<<Str("\nIntroduction-")>>>>
    /\ pc = "main:16" => Len(calls) = 1 /\ out = <<<<Str("\nInterfaces-")>>>>
    /\ pc = "done" => calls = Routines

\* C10: the command runs DemoImplementationMethodsIntroduction and then
\* DemoImplementationMethodsAndInterface, each once, each right after its
\* header line, no step panics, and every run reaches the end of main.
MainRunsBothRoutines ==
    /\ [](client = "main" => MainInOrder)
    /\ (client = "main") ~> (client = "main" /\ pc = "done")

\* the command at its end, both routines run
MainDone ==
    /\ client = "main" /\ pc = "done"
    /\ calls = Routines
    /\ ~panicked

====
